---------------------------- MODULE Spec2Model ----------------------------
(***************************************************************************)
(* A model of the Huffman codec of xinpingzhang/Huffman: the bit stream of *)
(* bits-io.c, the binary heap of pqueue.c, the tree construction of        *)
(* huffman.c and the tree codec of tree.c.                                 *)
(*                                                                         *)
(* Five specifications share the variables:                                *)
(*   SpecBits  the life of one BitsIOFile: open, write/read, close         *)
(*   SpecPQ    arbitrary pqueue_enqueue / pqueue_dequeue sequences         *)
(*   SpecHuff  huffman_build_tree, tree_serialize, tree_deserialize,       *)
(*             huffman_find                                                *)
(*   SpecDeser tree_deserialize given any text                             *)
(*   SpecMerge merge_nodes on the same leaves enqueued in two orders       *)
(***************************************************************************)
EXTENDS Integers, Sequences, FiniteSets, TLC

VARIABLES
    \* ---- bits-io.c
    file,       \* the bytes of the file on disk
    fpos,       \* the position of the open FILE* in it
    bfile,      \* the BitsIOFile structure (fp = "NULL" when none is open)
    written,    \* history: the bits passed to bits_io_write_bit since open "w"
    got,        \* history: the bits bits_io_read_bit returned since open "r"
    offs,       \* history: the values passed to write_offset since open "w"
    roffs,      \* history: the values read_offset returned since open "r"
    lastOp,     \* the last operation called and what it returned
    devsize,    \* the number of bytes the device holding the file has room for
    ferr,       \* the error indicator of the FILE*: a write to it has failed
    unbuf,      \* history: the same calls made on a stream that has no buffer
    \* ---- huffman.c, pqueue.c, tree.c
    build,      \* the build: is plain char signed, is NDEBUG defined
    input,      \* the bytes of the file given to huffman_build_tree
    table,      \* Context.table
    nodes,      \* the allocated TreeNodes, by id (tree_new's ids counter)
    pq,         \* the PriorityQueue
    root,       \* what huffman_build_tree returned
    text,       \* the characters tree_serialize wrote
    rounds,     \* history: the rounds of the loop of the last build_tree
    droot,      \* what tree_deserialize returned
    freed,      \* the nodes pqueue_free has freed, in order
    found,      \* the last huffman_find call: its encoding and result
    pqOp,       \* history: the last queue operation, its result, the queue before
    pc          \* where the tree pipeline stands

bitsVars == <<file, fpos, bfile, written, got, offs, roffs, lastOp, devsize, ferr,
              unbuf>>
huffVars == <<build, input, table, nodes, pq, root, text, rounds, droot, freed,
              found, pqOp, pc>>
vars == <<file, fpos, bfile, written, got, offs, roffs, lastOp, devsize, ferr,
          unbuf,
          build, input, table, nodes, pq, root, text, rounds, droot, freed,
          found, pqOp, pc>>

(***************************************************************************)
(* Bounds of the model.  BUF_SIZE, MAXSIZE and SizeofOffset stand for the  *)
(* source's 1<<20, 256 and sizeof(uint64_t) = 8, scaled so that a full     *)
(* buffer, a full queue and every offset value are within reach.           *)
(***************************************************************************)
BUF_SIZE == 1
SizeofOffset == 2
ExtraBits == 1
DiskSpace == 0
MaxRuns == 2
MaxInputLen == 6
MaxShuffledLen == 3
MaxCodeLen == 3
MaxAlloc == 6
MaxTextLen == 6
MaxRecords == 3
MaxMergeLen == 6

\* the byte values the inputs are made of: NUL, a letter, and two bytes
\* above 127
Alphabet == {0, 97, 128, 255}

\* the (count, symbol) keys of the nodes the queue is exercised with
PQKeys == {<<1, 0>>, <<1, 255>>, <<2, 97>>}

\* enough bits to fill the buffer, flush it, and leave a partial byte
MaxBits == 8 * (BUF_SIZE + 1) + ExtraBits

\* the longest file written
MaxFileLen == (MaxBits + 7) \div 8

\* the devices written to: one with room for DiskSpace bytes only, and one
\* with room for the longest file written
DeviceSizes == {DiskSpace, MaxFileLen}

EOF == -1

Pow2(n) == 2 ^ n
Pow256(n) == 256 ^ n

\* (uint64_t)(-1L)
OffsetEOF == Pow256(SizeofOffset) - 1

\* the sizes the callers pass to write_offset
OffsetValues == {300, OffsetEOF}

(***************************************************************************)
(*                              bits-io.c                                  *)
(***************************************************************************)

Byte == 0..255

\* (unsigned char) x
ToUChar(x) == x % 256

CeilDiv(a, b) == (a + b - 1) \div b

\* calloc(1, sizeof(BitsIOFile)); fp = "NULL" stands for no structure at all
NoBitsIOFile ==
    [fp |-> "NULL", count |-> 0, mode |-> "-", byte |-> 0, index |-> 0,
     read |-> 0, buf |-> [i \in 0..(BUF_SIZE - 1) |-> 0], nbits |-> 0]

\* bits_io_open, once fopen has succeeded
bits_io_open(mode_letter) ==
    LET b == [NoBitsIOFile EXCEPT !.fp = "open", !.mode = mode_letter]
    IN  IF mode_letter = "r"
        THEN [b EXCEPT !.nbits = 8, !.index = BUF_SIZE]
        ELSE b

\* a fill_buf that rewinds the cursor before it looks at what fread returned
fill_buf_RewindsFirst(b, f, pos) ==
    LET avail == Len(f) - pos
        rd == IF avail < BUF_SIZE THEN avail ELSE BUF_SIZE
    IN  IF rd = 0
        THEN [b |-> [b EXCEPT !.index = 0], fpos |-> pos, ret |-> EOF]
        ELSE [b |-> [b EXCEPT !.read = rd, !.index = 0,
                              !.buf = [i \in 0..(BUF_SIZE - 1) |->
                                          IF i < rd THEN f[pos + i + 1] ELSE b.buf[i]]],
              fpos |-> pos + rd, ret |-> 0]

\* fread(bfile->buf, 1, BUF_SIZE, bfile->fp) at position pos of f
fill_buf(b, f, pos) ==
    LET avail == Len(f) - pos
        rd == IF avail < BUF_SIZE THEN avail ELSE BUF_SIZE
    IN  IF rd = 0
        THEN [b |-> b, fpos |-> pos, ret |-> EOF]
        ELSE [b |-> [b EXCEPT !.read = rd, !.index = 0,
                              !.buf = [i \in 0..(BUF_SIZE - 1) |->
                                          IF i < rd THEN f[pos + i + 1] ELSE b.buf[i]]],
              fpos |-> pos + rd, ret |-> 0]

\* fwrite(bytes, 1, Len(bytes), fp) on a device with room for size bytes:
\* the bytes that fit are appended, n is the number written
fwrite(f, bytes, size) ==
    LET room == size - Len(f)
        n == IF Len(bytes) < room THEN Len(bytes) ELSE room
    IN  [file |-> f \o SubSeq(bytes, 1, n), n |-> n, err |-> n < Len(bytes)]

\* fputc(c, fp) on a device with room for size bytes
fputc(f, c, size) ==
    IF Len(f) < size
    THEN [file |-> Append(f, c), ret |-> c, err |-> FALSE]
    ELSE [file |-> f, ret |-> EOF, err |-> TRUE]

\* fwrite(bfile->buf, 1, bfile->index, bfile->fp) < BUF_SIZE is the failure
flush_buf(b, f, size) ==
    LET w == fwrite(f, [i \in 1..b.index |-> b.buf[i - 1]], size)
    IN  IF w.n < BUF_SIZE
        THEN [b |-> b, file |-> w.file, ret |-> EOF, err |-> w.err]
        ELSE [b |-> [b EXCEPT !.index = 0], file |-> w.file, ret |-> 0,
              err |-> w.err]

\* a close that writes the accumulator as it stands, unshifted
PadByte_NoShift(byte, nbits) == ToUChar(byte)

\* the byte bits_io_close writes for a partial accumulator: c << (8 - nbits)
PadByte(byte, nbits) == ToUChar(byte * Pow2(8 - nbits))

\* a count that takes the pending bits of a write stream for a byte
bits_io_num_bytes_WithPartial(b) ==
    b.count + (IF b.mode = "w" /\ b.nbits > 0 THEN 1 ELSE 0)

bits_io_num_bytes(b) == b.count

\* the results of flush_buf, fputc and fclose are not looked at
bits_io_close(b, f, size) ==
    IF b.mode = "w"
    THEN LET fl == flush_buf(b, f, size)
         IN  IF fl.b.nbits > 0
             THEN LET pc1 == fputc(fl.file, PadByte(fl.b.byte, fl.b.nbits), size)
                  IN  [file |-> pc1.file, ret |-> 0, err |-> fl.err \/ pc1.err]
             ELSE [file |-> fl.file, ret |-> 0, err |-> fl.err]
    ELSE [file |-> f, ret |-> 0, err |-> FALSE]

bits_io_read_bit(b, f, pos) ==
    LET fetch == b.nbits >= 8
        refill == fetch /\ b.index >= b.read
        fb == IF refill THEN fill_buf(b, f, pos) ELSE [b |-> b, fpos |-> pos, ret |-> 0]
    IN  IF refill /\ fb.ret = EOF
        THEN [b |-> fb.b, fpos |-> fb.fpos, ret |-> EOF]
        ELSE LET b1 == IF fetch
                       THEN [fb.b EXCEPT !.byte = fb.b.buf[fb.b.index],
                                         !.index = fb.b.index + 1,
                                         !.count = fb.b.count + 1,
                                         !.nbits = 0]
                       ELSE b
                 bit == b1.byte \div 128
             IN  [b |-> [b1 EXCEPT !.byte = ToUChar(b1.byte * 2),
                                   !.nbits = b1.nbits + 1],
                  fpos |-> fb.fpos, ret |-> bit]

bits_io_write_bit(b, f, bit, size) ==
    LET b1 == [b EXCEPT !.byte = ToUChar(b.byte * 2 + bit), !.nbits = b.nbits + 1]
    IN  IF b1.nbits >= 8
        THEN LET b2 == [b1 EXCEPT !.count = b1.count + 1]
                 full == b2.index >= BUF_SIZE
                 fl == IF full THEN flush_buf(b2, f, size)
                       ELSE [b |-> b2, file |-> f, ret |-> 0, err |-> FALSE]
             IN  IF full /\ fl.ret = EOF
                 THEN [b |-> fl.b, file |-> fl.file, ret |-> EOF, err |-> fl.err]
                 ELSE [b |-> [fl.b EXCEPT !.buf[fl.b.index] = fl.b.byte,
                                          !.index = fl.b.index + 1,
                                          !.byte = 0,
                                          !.nbits = 0],
                       file |-> fl.file, ret |-> bit, err |-> fl.err]
        ELSE [b |-> b1, file |-> f, ret |-> bit, err |-> FALSE]

\* the ith byte of size: (size >> (i << 3)) & 0xFF
OffsetByte(size, i) == (size \div Pow256(i)) % 256

\* a loop that runs i upwards, least-significant byte first
OffsetBytes_LittleEndian(size) ==
    [k \in 1..SizeofOffset |-> OffsetByte(size, k - 1)]

\* the bytes the loop of write_offset puts, i = sizeof - 1 down to 0
OffsetBytes(size) ==
    [k \in 1..SizeofOffset |-> OffsetByte(size, SizeofOffset - k)]

\* the loop of write_offset from the kth byte on: the first fputc that fails
\* ends it
RECURSIVE write_offset_loop(_, _, _, _)
write_offset_loop(f, bytes, k, dsize) ==
    IF k > Len(bytes)
    THEN [file |-> f, ret |-> 0, err |-> FALSE]
    ELSE LET pc1 == fputc(f, bytes[k], dsize)
         IN  IF pc1.ret = EOF
             THEN [file |-> pc1.file, ret |-> EOF, err |-> TRUE]
             ELSE write_offset_loop(pc1.file, bytes, k + 1, dsize)

write_offset(b, f, size, dsize) ==
    IF b.mode # "w"
    THEN [file |-> f, ret |-> EOF, err |-> FALSE]
    ELSE write_offset_loop(f, OffsetBytes(size), 1, dsize)

\* the loop of read_offset after i bytes: size = (size << 8) | c
RECURSIVE read_offset_loop(_, _, _, _)
read_offset_loop(f, pos, i, size) ==
    IF i >= SizeofOffset
    THEN [fpos |-> pos, ret |-> size]
    ELSE IF pos >= Len(f)
         THEN [fpos |-> pos, ret |-> OffsetEOF]
         ELSE read_offset_loop(f, pos + 1, i + 1,
                               ((size * 256) % Pow256(SizeofOffset)) + f[pos + 1])

read_offset(b, f, pos) ==
    IF b.mode # "r"
    THEN [fpos |-> pos, ret |-> OffsetEOF]
    ELSE read_offset_loop(f, pos, 0, 0)

\* the bits a read stream has not returned yet: those of the accumulator,
\* of the bytes in the buffer and of the bytes in the file
BitsLeft(b, f, pos) ==
    (IF b.nbits < 8 THEN 8 - b.nbits ELSE 0)
        + 8 * ((IF b.index < b.read THEN b.read - b.index ELSE 0) + (Len(f) - pos))

\* the runs of equal bits in a sequence of bits
Runs(bits) ==
    IF bits = <<>> THEN 0
    ELSE 1 + Cardinality({i \in 2..Len(bits) : bits[i] # bits[i - 1]})

Op(name, arg, ret) == [op |-> name, arg |-> arg, ret |-> ret]

(***************************************************************************)
(* The stream without a buffer: the accumulator of bits-io.c, every        *)
(* completed byte put to the file with one fputc the moment it is complete *)
(* and every byte taken from the file with one fgetc the moment a bit of   *)
(* it is asked for.  file is what it has written, pos its position in the  *)
(* file it reads, ret what its last call returned.                         *)
(***************************************************************************)
UnbufferedNew == [file |-> <<>>, pos |-> 0, byte |-> 0, nbits |-> 0, ret |-> 0]

UnbufferedOpen(u, mode_letter) ==
    IF mode_letter = "r"
    THEN [u EXCEPT !.pos = 0, !.byte = 0, !.nbits = 8, !.ret = 0]
    ELSE UnbufferedNew

UnbufferedWriteBit(u, bit) ==
    LET c == ToUChar(u.byte * 2 + bit)
    IN  IF u.nbits + 1 >= 8
        THEN [u EXCEPT !.file = Append(u.file, c), !.byte = 0, !.nbits = 0,
                       !.ret = bit]
        ELSE [u EXCEPT !.byte = c, !.nbits = u.nbits + 1, !.ret = bit]

UnbufferedWriteOffset(u, size) ==
    [u EXCEPT !.file = u.file \o OffsetBytes(size), !.ret = 0]

UnbufferedReadBit(u, f) ==
    IF u.nbits >= 8 /\ u.pos >= Len(f)
    THEN [u EXCEPT !.ret = EOF]
    ELSE LET c == IF u.nbits >= 8 THEN f[u.pos + 1] ELSE u.byte
             n == IF u.nbits >= 8 THEN 0 ELSE u.nbits
             p == IF u.nbits >= 8 THEN u.pos + 1 ELSE u.pos
         IN  [u EXCEPT !.pos = p, !.byte = ToUChar(c * 2), !.nbits = n + 1,
                       !.ret = c \div 128]

UnbufferedReadOffset(u, f) ==
    LET r == read_offset_loop(f, u.pos, 0, 0)
    IN  [u EXCEPT !.pos = r.fpos, !.ret = r.ret]

UnbufferedClose(u, mode_letter) ==
    IF mode_letter = "w"
    THEN [file |-> IF u.nbits > 0
                   THEN Append(u.file, PadByte(u.byte, u.nbits))
                   ELSE u.file,
          pos |-> 0, byte |-> 0, nbits |-> 0, ret |-> 0]
    ELSE [u EXCEPT !.pos = 0, !.byte = 0, !.nbits = 0, !.ret = 0]

InitBits ==
    /\ file = <<>>
    /\ fpos = 0
    /\ bfile = NoBitsIOFile
    /\ written = <<>>
    /\ got = <<>>
    /\ offs = <<>>
    /\ roffs = <<>>
    /\ lastOp = Op("none", 0, 0)
    /\ ferr = FALSE
    /\ unbuf = UnbufferedNew

\* bits_io_open(name, "w"): fopen truncates the file
OpenWrite ==
    /\ bfile.fp = "NULL"
    /\ file' = <<>>
    /\ fpos' = 0
    /\ bfile' = bits_io_open("w")
    /\ written' = <<>>
    /\ offs' = <<>>
    /\ got' = <<>>
    /\ roffs' = <<>>
    /\ lastOp' = Op("open_w", 0, 0)
    /\ ferr' = FALSE
    /\ unbuf' = UnbufferedOpen(unbuf, "w")
    /\ UNCHANGED devsize
    /\ UNCHANGED huffVars

\* bits_io_open(name, "r")
OpenRead ==
    /\ bfile.fp = "NULL"
    /\ fpos' = 0
    /\ bfile' = bits_io_open("r")
    /\ got' = <<>>
    /\ roffs' = <<>>
    /\ lastOp' = Op("open_r", 0, 0)
    /\ unbuf' = UnbufferedOpen(unbuf, "r")
    /\ UNCHANGED <<file, written, offs, devsize, ferr>>
    /\ UNCHANGED huffVars

WriteBit ==
    /\ bfile.fp = "open" /\ bfile.mode = "w"
    /\ Len(written) < MaxBits
    /\ CeilDiv(Len(written) + 1, 8) + SizeofOffset * Len(offs) <= MaxFileLen
    /\ \E bit \in {0, 1} :
          /\ Runs(Append(written, bit)) <= MaxRuns
          /\ LET r == bits_io_write_bit(bfile, file, bit, devsize)
             IN  /\ bfile' = r.b
                 /\ ferr' = (ferr \/ r.err)
                 /\ file' = r.file
                 /\ fpos' = Len(r.file)
                 /\ written' = Append(written, bit)
                 /\ lastOp' = Op("write_bit", bit, r.ret)
                 /\ unbuf' = UnbufferedWriteBit(unbuf, bit)
    /\ UNCHANGED <<got, offs, roffs, devsize>>
    /\ UNCHANGED huffVars

WriteOffset ==
    /\ bfile.fp = "open" /\ bfile.mode = "w"
    /\ CeilDiv(Len(written), 8) + SizeofOffset * (Len(offs) + 1) <= MaxFileLen
    /\ \E size \in OffsetValues :
          LET r == write_offset(bfile, file, size, devsize)
          IN  /\ file' = r.file
              /\ ferr' = (ferr \/ r.err)
              /\ fpos' = Len(r.file)
              /\ offs' = Append(offs, size)
              /\ lastOp' = Op("write_offset", size, r.ret)
              /\ unbuf' = UnbufferedWriteOffset(unbuf, size)
    /\ UNCHANGED <<bfile, written, got, roffs, devsize>>
    /\ UNCHANGED huffVars

ReadBit ==
    /\ bfile.fp = "open" /\ bfile.mode = "r"
    /\ LET r == bits_io_read_bit(bfile, file, fpos)
       IN  /\ bfile' = r.b
           /\ fpos' = r.fpos
           /\ got' = IF r.ret = EOF THEN got ELSE Append(got, r.ret)
           /\ lastOp' = Op("read_bit", BitsLeft(bfile, file, fpos), r.ret)
    /\ unbuf' = UnbufferedReadBit(unbuf, file)
    /\ UNCHANGED <<file, written, offs, roffs, devsize, ferr>>
    /\ UNCHANGED huffVars

ReadOffset ==
    /\ bfile.fp = "open" /\ bfile.mode = "r"
    /\ Len(roffs) <= Len(offs)
    /\ LET r == read_offset(bfile, file, fpos)
       IN  /\ fpos' = r.fpos
           /\ roffs' = Append(roffs, r.ret)
           /\ lastOp' = Op("read_offset", Len(file) - fpos, r.ret)
    /\ unbuf' = UnbufferedReadOffset(unbuf, file)
    /\ UNCHANGED <<file, bfile, written, got, offs, devsize, ferr>>
    /\ UNCHANGED huffVars

Close ==
    /\ bfile.fp = "open"
    /\ LET r == bits_io_close(bfile, file, devsize)
       IN  /\ file' = r.file
           /\ ferr' = (ferr \/ r.err)
           /\ lastOp' = Op(IF bfile.mode = "w" THEN "close_w" ELSE "close_r",
                           bfile.nbits, r.ret)
    /\ fpos' = 0
    /\ bfile' = NoBitsIOFile
    /\ unbuf' = UnbufferedClose(unbuf, bfile.mode)
    /\ UNCHANGED <<written, got, offs, roffs, devsize>>
    /\ UNCHANGED huffVars

NextBits ==
    \/ OpenWrite
    \/ OpenRead
    \/ WriteBit
    \/ WriteOffset
    \/ ReadBit
    \/ ReadOffset
    \/ Close

(***************************************************************************)
(*                    tree.h, tree.c: Frequency, TreeNode                  *)
(***************************************************************************)

NULL == 0

NUMBER_OF_CHARS == 256

\* the value a char holds after an int is stored in it: plain char is signed
\* or unsigned as the build decides
ToChar(i) ==
    IF build.charSigned THEN ((i + 128) % 256) - 128 ELSE i % 256

Frequency(v, c) == [v |-> v, c |-> c]

\* tree_new: a zeroed TreeNode with the next id, tagged INTERNAL
tree_new(ns) ==
    Append(ns, [id |-> Len(ns) + 1, type |-> "INTERNAL",
                freq |-> Frequency(0, 0), left |-> NULL, right |-> NULL])

\* the pointer tree_new returned
NewId(ns) == Len(ns) + 1

\* tree_is_leaf is declared in tree.h; its definition is not in the sources
tree_is_leaf(ns, n) == ns[n].left = NULL /\ ns[n].right = NULL

RECURSIVE tree_size(_, _)
tree_size(ns, tree) ==
    IF tree = NULL
    THEN 0
    ELSE tree_size(ns, ns[tree].left) + tree_size(ns, ns[tree].right) + 1

(***************************************************************************)
(*                               pqueue.c                                  *)
(***************************************************************************)

MAXSIZE == 5

LEFT_CHILD(i) == 2 * i + 1
RIGHT_CHILD(i) == 2 * i + 2
\* (i-1)>>1, an arithmetic shift: -1 for i = 0
PARENT(i) == IF i = 0 THEN -1 ELSE (i - 1) \div 2

\* calloc(1, sizeof(PriorityQueue))
pqueue_new == [queue |-> [i \in 0..(MAXSIZE - 1) |-> NULL], count |-> 0]

\* a comparator that orders by count descending
comparator_Descending(ns, n1, n2) ==
    LET a == ns[n1].freq.v
        b == ns[n2].freq.v
    IN  IF a < b THEN 1
        ELSE IF a > b THEN -1
        ELSE ns[n1].freq.c - ns[n2].freq.c

comparator(ns, n1, n2) ==
    LET a == ns[n1].freq.v
        b == ns[n2].freq.v
    IN  IF a < b THEN -1
        ELSE IF a > b THEN 1
        ELSE ns[n1].freq.c - ns[n2].freq.c

\* a bubble_down that never looks at the right child
MinChild_AlwaysLeft(ns, arr, left, right, end) == left

\* the child bubble_down moves up: the right one only when it compares smaller
MinChild(ns, arr, left, right, end) ==
    IF right < end /\ comparator(ns, arr[right], arr[left]) < 0 THEN right ELSE left

RECURSIVE bubble_down_loop(_, _, _, _, _)
bubble_down_loop(ns, arr, i, end, src) ==
    LET left == LEFT_CHILD(i)
        right == left + 1
    IN  IF left < end
        THEN LET min == MinChild(ns, arr, left, right, end)
             IN  IF comparator(ns, src, arr[min]) < 0
                 THEN [arr EXCEPT ![i] = src]
                 ELSE bubble_down_loop(ns, [arr EXCEPT ![i] = arr[min]], min, end, src)
        ELSE [arr EXCEPT ![i] = src]

bubble_down(ns, arr, i, end) == bubble_down_loop(ns, arr, i, end, arr[i])

RECURSIVE bubble_up_loop(_, _, _, _)
bubble_up_loop(ns, arr, i, src) ==
    LET parent == PARENT(i)
    IN  IF parent >= 0 /\ comparator(ns, arr[parent], src) > 0
        THEN bubble_up_loop(ns, [arr EXCEPT ![i] = arr[parent]], parent, src)
        ELSE [arr EXCEPT ![i] = src]

\* a bubble_up that leaves the element where it was put
bubble_up_NoMove(ns, arr, i) == arr

bubble_up(ns, arr, i) == bubble_up_loop(ns, arr, i, arr[i])

is_empty(q) == q.count <= 0

pqueue_size(q) == q.count

\* an enqueue that, when the array is full, puts the node in the last slot
pqueue_enqueue_Overwrite(ns, q, n) ==
    IF q.count >= MAXSIZE
    THEN [queue |-> bubble_up(ns, [q.queue EXCEPT ![MAXSIZE - 1] = n], MAXSIZE - 1),
          count |-> q.count]
    ELSE [queue |-> bubble_up(ns, [q.queue EXCEPT ![q.count] = n], q.count),
          count |-> q.count + 1]

pqueue_enqueue(ns, q, n) ==
    IF q.count >= MAXSIZE
    THEN q
    ELSE [queue |-> bubble_up(ns, [q.queue EXCEPT ![q.count] = n], q.count),
          count |-> q.count + 1]

\* a dequeue that leaves the vacated slot as it was
pqueue_dequeue_KeepsSlot(ns, q) ==
    IF is_empty(q)
    THEN [pq |-> q, ret |-> NULL]
    ELSE LET data == q.queue[0]
             cnt == q.count - 1
             a1 == [q.queue EXCEPT ![0] = q.queue[cnt]]
         IN  [pq |-> [queue |-> bubble_down(ns, a1, 0, cnt), count |-> cnt],
              ret |-> data]

\* the queue after the call and the pointer returned
pqueue_dequeue(ns, q) ==
    IF is_empty(q)
    THEN [pq |-> q, ret |-> NULL]
    ELSE LET data == q.queue[0]
             cnt == q.count - 1
             a1 == [q.queue EXCEPT ![0] = q.queue[cnt]]
             a2 == [a1 EXCEPT ![cnt] = NULL]
         IN  [pq |-> [queue |-> bubble_down(ns, a2, 0, cnt), count |-> cnt],
              ret |-> data]

\* the nodes pqueue_free frees, slot 0 first
pqueue_free(q) ==
    SelectSeq([k \in 1..MAXSIZE |-> q.queue[k - 1]], LAMBDA n : n # NULL)

(***************************************************************************)
(*                               huffman.c                                 *)
(***************************************************************************)

\* the loops of compute_freq: the table zeroed, then one increment per byte
RECURSIVE count_bytes(_, _, _)
count_bytes(arr, buf, i) ==
    IF i > Len(buf)
    THEN arr
    ELSE count_bytes([arr EXCEPT ![buf[i]].v = arr[buf[i]].v + 1], buf, i + 1)

\* a count that leaves out the first byte read
compute_freq_FromSecond(buf) ==
    count_bytes([i \in 0..(NUMBER_OF_CHARS - 1) |-> Frequency(0, ToChar(i))], buf, 2)

compute_freq(buf) ==
    count_bytes([i \in 0..(NUMBER_OF_CHARS - 1) |-> Frequency(0, ToChar(i))], buf, 1)

\* the loop of create_tree_nodes from index i on; the rounds whose entry has
\* a zero count do nothing and are passed over at once
RECURSIVE create_tree_nodes_loop(_, _, _, _)
create_tree_nodes_loop(arr, ns, q, i) ==
    LET seen == {j \in i..(NUMBER_OF_CHARS - 1) : arr[j].v > 0}
    IN  IF seen = {}
        THEN [nodes |-> ns, pq |-> q]
        ELSE LET k == CHOOSE j \in seen : \A j2 \in seen : j <= j2
                 node == NewId(ns)
                 ns1 == [tree_new(ns) EXCEPT ![node].freq = arr[k]]
             IN  create_tree_nodes_loop(arr, ns1, pqueue_enqueue(ns1, q, node), k + 1)

create_tree_nodes(arr, ns, q) == create_tree_nodes_loop(arr, ns, q, 0)

\* the count of the node a lone symbol is paired with
SentinelCount == -1

\* a round that links l on both sides
MergeParent_SameChild(ns, l, r) ==
    LET parent == NewId(ns)
    IN  [tree_new(ns) EXCEPT ![parent].freq.v = ns[l].freq.v + ns[r].freq.v,
                             ![parent].left = l,
                             ![parent].right = l]

\* a round that takes the left count alone
MergeParent_LeftCount(ns, l, r) ==
    LET parent == NewId(ns)
    IN  [tree_new(ns) EXCEPT ![parent].freq.v = ns[l].freq.v,
                             ![parent].left = l,
                             ![parent].right = r]

\* a round that links the node dequeued first on the right
MergeParent_Swapped(ns, l, r) ==
    LET parent == NewId(ns)
    IN  [tree_new(ns) EXCEPT ![parent].freq.v = ns[l].freq.v + ns[r].freq.v,
                             ![parent].left = r,
                             ![parent].right = l]

\* the node one round of the loop of merge_nodes builds from l and r
MergeParent(ns, l, r) ==
    LET parent == NewId(ns)
    IN  [tree_new(ns) EXCEPT ![parent].freq.v = ns[l].freq.v + ns[r].freq.v,
                             ![parent].left = l,
                             ![parent].right = r]

\* a loop that makes no round and returns what the queue has in front
merge_loop_NoRounds(ns, q, steps) ==
    LET d == pqueue_dequeue(ns, q)
    IN  [nodes |-> ns, pq |-> d.pq, ret |-> d.ret, steps |-> steps]

\* the while loop of merge_nodes and the final dequeue; steps counts the rounds
RECURSIVE merge_loop(_, _, _)
merge_loop(ns, q, steps) ==
    IF pqueue_size(q) > 1
    THEN LET d1 == pqueue_dequeue(ns, q)
             d2 == pqueue_dequeue(ns, d1.pq)
             ns1 == MergeParent(ns, d1.ret, d2.ret)
         IN  merge_loop(ns1, pqueue_enqueue(ns1, d2.pq, Len(ns1)), steps + 1)
    ELSE LET d == pqueue_dequeue(ns, q)
         IN  [nodes |-> ns, pq |-> d.pq, ret |-> d.ret, steps |-> steps]

\* a merge_nodes without the case of the lone symbol
merge_nodes_NoSentinel(ns, q) == merge_loop(ns, q, 0)

\* a merge_nodes that adds the sentinel whenever there are fewer than two nodes
merge_nodes_SentinelWhenEmpty(ns, q) ==
    IF pqueue_size(q) <= 1
    THEN LET node == NewId(ns)
             ns1 == [tree_new(ns) EXCEPT ![node].freq.v = SentinelCount]
         IN  merge_loop(ns1, pqueue_enqueue(ns1, q, node), 0)
    ELSE merge_loop(ns, q, 0)

merge_nodes(ns, q) ==
    IF pqueue_size(q) = 1
    THEN LET node == NewId(ns)
             ns1 == [tree_new(ns) EXCEPT ![node].freq.v = SentinelCount]
         IN  merge_loop(ns1, pqueue_enqueue(ns1, q, node), 0)
    ELSE merge_loop(ns, q, 0)

build_tree(ns, q) == merge_nodes(ns, q)

\* what huffman_find does once the encoding is walked: assert, then the char
FindAtEnd(ns, t) ==
    IF tree_is_leaf(ns, t) \/ build.ndebug
    THEN [kind |-> "ret", val |-> ns[t].freq.c]
    ELSE [kind |-> "abort", val |-> 0]

RECURSIVE huffman_find_loop(_, _, _, _)
huffman_find_loop(ns, t, encoding, i) ==
    IF i > Len(encoding)
    THEN FindAtEnd(ns, t)
    ELSE IF encoding[i] = "1"
         THEN IF ns[t].left = NULL
              THEN [kind |-> "ret", val |-> -1]
              ELSE huffman_find_loop(ns, ns[t].left, encoding, i + 1)
         ELSE IF ns[t].right = NULL
              THEN [kind |-> "ret", val |-> -1]
              ELSE huffman_find_loop(ns, ns[t].right, encoding, i + 1)

huffman_find(ns, tree, encoding) == huffman_find_loop(ns, tree, encoding, 1)

(***************************************************************************)
(*                    tree.c: tree_serialize, tree_deserialize             *)
(***************************************************************************)

Digits == <<"0", "1", "2", "3", "4", "5", "6", "7", "8", "9">>

\* printf's %d of a non-negative int
RECURSIVE FormatNat(_)
FormatNat(n) ==
    IF n < 10 THEN <<Digits[n + 1]>> ELSE FormatNat(n \div 10) \o <<Digits[(n % 10) + 1]>>

\* printf's %d
FormatInt(n) == IF n < 0 THEN <<"-">> \o FormatNat(-n) ELSE FormatNat(n)

RECURSIVE tree_serialize_rec(_, _)
tree_serialize_rec(ns, tree) ==
    IF ns[tree].type = "LEAF"
    THEN FormatInt(ns[tree].freq.v) \o <<" ">> \o FormatInt(ns[tree].freq.c) \o <<",">>
    ELSE (IF ns[tree].left # NULL THEN tree_serialize_rec(ns, ns[tree].left) ELSE <<>>)
         \o (IF ns[tree].right # NULL THEN tree_serialize_rec(ns, ns[tree].right) ELSE <<>>)

tree_serialize(ns, tree) == <<"#">> \o tree_serialize_rec(ns, tree) \o <<"#">>

IsSpace(ch) == ch \in {" ", "\n", "\t"}
IsDigit(ch) == \E d \in 1..10 : Digits[d] = ch
DigitVal(ch) == (CHOOSE d \in 1..10 : Digits[d] = ch) - 1

RECURSIVE SkipSpace(_, _)
SkipSpace(txt, pos) ==
    IF pos <= Len(txt) /\ IsSpace(txt[pos]) THEN SkipSpace(txt, pos + 1) ELSE pos

RECURSIVE ScanDigits(_, _, _)
ScanDigits(txt, pos, acc) ==
    IF pos <= Len(txt) /\ IsDigit(txt[pos])
    THEN ScanDigits(txt, pos + 1, acc * 10 + DigitVal(txt[pos]))
    ELSE [pos |-> pos, val |-> acc]

\* scanf's %d at pos: "eof" at the end of the input, "fail" on a mismatch
ScanInt(txt, pos) ==
    LET p0 == SkipSpace(txt, pos)
        signed == p0 <= Len(txt) /\ txt[p0] \in {"-", "+"}
        p1 == IF signed THEN p0 + 1 ELSE p0
    IN  IF p0 > Len(txt) THEN [st |-> "eof", pos |-> p0, val |-> 0]
        ELSE IF p1 > Len(txt) \/ ~IsDigit(txt[p1]) THEN [st |-> "fail", pos |-> p1, val |-> 0]
        ELSE LET d == ScanDigits(txt, p1, 0)
             IN  [st |-> "ok", pos |-> d.pos,
                  val |-> IF signed /\ txt[p0] = "-" THEN -d.val ELSE d.val]

\* a scan that takes a record of one integer for a whole one
ScanRecord_OneIsEnough(txt, pos) ==
    LET a == ScanInt(txt, pos)
    IN  IF a.st = "eof" THEN [count |-> EOF, pos |-> a.pos, fval |-> 0, fch |-> 0]
        ELSE IF a.st = "fail" THEN [count |-> 0, pos |-> a.pos, fval |-> 0, fch |-> 0]
        ELSE LET b == ScanInt(txt, a.pos)
             IN  [count |-> 2,
                  pos |-> IF b.pos <= Len(txt) /\ txt[b.pos] = ","
                          THEN b.pos + 1 ELSE b.pos,
                  fval |-> a.val, fch |-> b.val]

\* fscanf(fp, "%d %d,", &fval, &fch): the count returned and the position left
ScanRecord(txt, pos) ==
    LET a == ScanInt(txt, pos)
    IN  IF a.st = "eof" THEN [count |-> EOF, pos |-> a.pos, fval |-> 0, fch |-> 0]
        ELSE IF a.st = "fail" THEN [count |-> 0, pos |-> a.pos, fval |-> 0, fch |-> 0]
        ELSE LET b == ScanInt(txt, a.pos)
             IN  IF b.st # "ok"
                 THEN [count |-> 1, pos |-> b.pos, fval |-> a.val, fch |-> 0]
                 ELSE [count |-> 2,
                       pos |-> IF b.pos <= Len(txt) /\ txt[b.pos] = ","
                               THEN b.pos + 1 ELSE b.pos,
                       fval |-> a.val, fch |-> b.val]

\* the while loop of tree_deserialize, reading at pos; freed lists what
\* pqueue_free released
RECURSIVE deserialize_loop(_, _, _, _)
deserialize_loop(txt, ns, q, pos) ==
    LET rec == ScanRecord(txt, pos)
    IN  IF rec.count = EOF \/ rec.count < 2
        THEN [nodes |-> ns, ret |-> NULL, freed |-> pqueue_free(q)]
        ELSE LET n == NewId(ns)
                 ns1 == [tree_new(ns) EXCEPT ![n].type = "LEAF",
                                             ![n].freq = Frequency(rec.fval, ToChar(rec.fch))]
                 q1 == pqueue_enqueue(ns1, q, n)
             IN  IF rec.pos <= Len(txt) /\ txt[rec.pos] = "#"
                 THEN LET m == merge_nodes(ns1, q1)
                      IN  [nodes |-> m.nodes, ret |-> m.ret, freed |-> pqueue_free(m.pq)]
                 ELSE deserialize_loop(txt, ns1, q1, rec.pos)

tree_deserialize(txt, ns) ==
    IF Len(txt) = 0 \/ txt[1] # "#"
    THEN [nodes |-> ns, ret |-> NULL, freed |-> <<>>]
    ELSE deserialize_loop(txt, ns, pqueue_new, 2)

(***************************************************************************)
(*                      the tree pipeline, step by step                    *)
(***************************************************************************)

Builds == [charSigned : BOOLEAN, ndebug : BOOLEAN]

SeqsUpTo(S, n) == UNION {[1..k -> S] : k \in 0..n}

IsSorted(buf) == \A i \in 1..(Len(buf) - 1) : buf[i] <= buf[i + 1]

\* the files given to huffman_build_tree: every byte sequence up to
\* MaxShuffledLen, and the sorted ones up to MaxInputLen
Inputs ==
    SeqsUpTo(Alphabet, MaxShuffledLen)
        \cup {buf \in UNION {[1..k -> Alphabet] : k \in (MaxShuffledLen + 1)..MaxInputLen} :
                 IsSorted(buf)}

Encodings == SeqsUpTo({"0", "1"}, MaxCodeLen)

NoFind == [enc |-> <<>>, kind |-> "none", val |-> 0]

NoPQOp == [op |-> "none", ret |-> NULL, before |-> pqueue_new]

InitTree ==
    /\ build \in Builds
    /\ input = <<>>
    /\ table = [i \in 0..(NUMBER_OF_CHARS - 1) |-> Frequency(0, 0)]
    /\ nodes = <<>>
    /\ pq = pqueue_new
    /\ root = NULL
    /\ text = <<>>
    /\ rounds = 0
    /\ droot = NULL
    /\ freed = <<>>
    /\ found = NoFind
    /\ pqOp = NoPQOp
    /\ pc = "start"

\* huffman_build_tree, (1): compute_freq over the bytes of the file
ComputeFreq ==
    /\ pc = "start"
    /\ \E buf \in Inputs :
          /\ input' = buf
          /\ table' = compute_freq(buf)
    /\ pq' = pqueue_new
    /\ pc' = "freq"
    /\ UNCHANGED <<build, nodes, root, text, rounds, droot, freed, found, pqOp>>
    /\ UNCHANGED bitsVars

\* huffman_build_tree, (2): create_tree_nodes
CreateTreeNodes ==
    /\ pc = "freq"
    /\ LET r == create_tree_nodes(table, nodes, pq)
       IN  /\ nodes' = r.nodes
           /\ pq' = r.pq
    /\ pc' = "nodes"
    /\ UNCHANGED <<build, input, table, root, text, rounds, droot, freed, found, pqOp>>
    /\ UNCHANGED bitsVars

\* huffman_build_tree, (3): build_tree, and the root returned
BuildTree ==
    /\ pc = "nodes"
    /\ LET m == build_tree(nodes, pq)
       IN  /\ nodes' = m.nodes
           /\ pq' = m.pq
           /\ root' = m.ret
           /\ rounds' = m.steps
    /\ pc' = "built"
    /\ UNCHANGED <<build, input, table, text, droot, freed, found, pqOp>>
    /\ UNCHANGED bitsVars

\* tree_serialize(root, fp) on the tree built
Serialize ==
    /\ pc = "built"
    /\ root # NULL
    /\ text' = tree_serialize(nodes, root)
    /\ pc' = "serialized"
    /\ UNCHANGED <<build, input, table, nodes, pq, root, rounds, droot, freed, found, pqOp>>
    /\ UNCHANGED bitsVars

\* tree_deserialize(fp) on what tree_serialize wrote
Deserialize ==
    /\ pc = "serialized"
    /\ LET d == tree_deserialize(text, nodes)
       IN  /\ nodes' = d.nodes
           /\ droot' = d.ret
           /\ freed' = freed \o d.freed
    /\ pc' = "deserialized"
    /\ UNCHANGED <<build, input, table, pq, root, text, rounds, found, pqOp>>
    /\ UNCHANGED bitsVars

\* huffman_find(root, encoding)
Find ==
    /\ pc = "built"
    /\ root # NULL
    /\ \E enc \in Encodings :
          LET r == huffman_find(nodes, root, enc)
          IN  found' = [enc |-> enc, kind |-> r.kind, val |-> r.val]
    /\ pc' = "found"
    /\ UNCHANGED <<build, input, table, nodes, pq, root, text, rounds, droot, freed, pqOp>>
    /\ UNCHANGED bitsVars

NextHuff ==
    \/ ComputeFreq
    \/ CreateTreeNodes
    \/ BuildTree
    \/ Serialize
    \/ Deserialize
    \/ Find

(***************************************************************************)
(*                     the queue under arbitrary use                       *)
(***************************************************************************)

\* a fresh node with the given key is enqueued, as create_tree_nodes does
PQEnqueue ==
    /\ pc = "start"
    /\ Len(nodes) < MaxAlloc
    /\ \E key \in PQKeys :
          LET n == NewId(nodes)
              ns1 == [tree_new(nodes) EXCEPT ![n].freq = Frequency(key[1], ToChar(key[2]))]
          IN  /\ nodes' = ns1
              /\ pq' = pqueue_enqueue(ns1, pq, n)
              /\ pqOp' = [op |-> "enqueue", ret |-> n, before |-> pq]
    /\ UNCHANGED <<build, input, table, root, text, rounds, droot, freed, found, pc>>
    /\ UNCHANGED bitsVars

PQDequeue ==
    /\ pc = "start"
    /\ LET d == pqueue_dequeue(nodes, pq)
       IN  /\ pq' = d.pq
           /\ pqOp' = [op |-> "dequeue", ret |-> d.ret, before |-> pq]
    /\ UNCHANGED <<build, input, table, nodes, root, text, rounds, droot, freed, found, pc>>
    /\ UNCHANGED bitsVars

NextPQ ==
    \/ PQEnqueue
    \/ PQDequeue

(***************************************************************************)
(* tree_deserialize on its own, given any text                             *)
(***************************************************************************)

\* the characters of the texts tried at full length: the delimiter, a digit,
\* a space, the separator and a character of no meaning
TextChars == {"#", "1", " ", ",", "x"}

\* the record "<v> <c>," as tree_serialize_rec prints it
RecordText(v, c) == FormatInt(v) \o <<" ">> \o FormatInt(c) \o <<",">>

\* the records longer texts are made of: four as printed, one without its
\* separator, one with a single integer
RecordTexts ==
    {RecordText(1, 0), RecordText(1, 255), RecordText(2, 97), RecordText(-1, 0),
     <<"1", " ", "9", "7">>, <<"3", ",">>}

\* what follows the last record: the delimiter, nothing, or something else
Enders == {<<"#">>, <<>>, <<"x">>}

RECURSIVE Flatten(_)
Flatten(ss) == IF ss = <<>> THEN <<>> ELSE Head(ss) \o Flatten(Tail(ss))

\* the texts of more records than MaxRecords, up to one more than the queue
\* has room for: one record repeated
LongTexts ==
    {<<"#">> \o Flatten([i \in 1..k |-> RecordText(1, 0)]) \o e :
        k \in (MaxRecords + 1)..(MAXSIZE + 1), e \in Enders}

\* the files given to tree_deserialize: every text up to MaxTextLen
\* characters, the texts of up to MaxRecords records, and the long texts
TreeTexts ==
    SeqsUpTo(TextChars, MaxTextLen)
        \cup {<<"#">> \o Flatten(rs) \o e :
                 rs \in SeqsUpTo(RecordTexts, MaxRecords), e \in Enders}
        \cup LongTexts

InitDeser ==
    /\ InitBits
    /\ devsize = MaxFileLen
    /\ InitTree
    /\ build.ndebug = FALSE

\* tree_deserialize(fp) on a file holding txt
DeserializeText ==
    /\ pc = "start"
    /\ \E txt \in TreeTexts :
          LET d == tree_deserialize(txt, nodes)
          IN  /\ text' = txt
              /\ nodes' = d.nodes
              /\ droot' = d.ret
              /\ freed' = freed \o d.freed
    /\ pc' = "parsed"
    /\ UNCHANGED <<build, input, table, pq, root, rounds, found, pqOp>>
    /\ UNCHANGED bitsVars

NextDeser ==
    \/ DeserializeText

(***************************************************************************)
(* merge_nodes on the same leaves enqueued in two orders: by                *)
(* create_tree_nodes, and by tree_deserialize from the records of the      *)
(* leaves of the tree built                                                *)
(***************************************************************************)

\* the byte values of the inputs merged: as many as the queue has room for
MergeAlphabet == {0, 1, 97, 128, 255}

\* the files merged: the sorted byte sequences up to MaxMergeLen
MergeInputs ==
    {buf \in SeqsUpTo(MergeAlphabet, MaxMergeLen) : IsSorted(buf)}

\* the nodes with every childless node tagged LEAF, as the comment of
\* create_tree_nodes asks for
WithLeafTags(ns) ==
    [i \in DOMAIN ns |->
        IF ns[i].left = NULL /\ ns[i].right = NULL
        THEN [ns[i] EXCEPT !.type = "LEAF"]
        ELSE ns[i]]

\* the file that holds the records of the leaves of a tree, left to right
LeafRecords(ns, tree) == tree_serialize(WithLeafTags(ns), tree)

InitMerge ==
    /\ InitBits
    /\ devsize = MaxFileLen
    /\ InitTree
    /\ build.ndebug = FALSE

\* huffman_build_tree: the leaves enqueued in symbol order, then merged
MergeFromTable ==
    /\ pc = "start"
    /\ \E buf \in MergeInputs :
          LET arr == compute_freq(buf)
              r == create_tree_nodes(arr, nodes, pqueue_new)
              m == build_tree(r.nodes, r.pq)
          IN  /\ input' = buf
              /\ table' = arr
              /\ nodes' = m.nodes
              /\ pq' = m.pq
              /\ root' = m.ret
              /\ rounds' = m.steps
    /\ pc' = "merged"
    /\ UNCHANGED <<build, text, droot, freed, found, pqOp>>
    /\ UNCHANGED bitsVars

\* tree_deserialize on the records of the leaves of the tree built: the
\* leaves enqueued in left-to-right order, then merged
MergeFromRecords ==
    /\ pc = "merged"
    /\ root # NULL
    /\ LET txt == LeafRecords(nodes, root)
           d == tree_deserialize(txt, nodes)
       IN  /\ text' = txt
           /\ nodes' = d.nodes
           /\ droot' = d.ret
           /\ freed' = freed \o d.freed
    /\ pc' = "remerged"
    /\ UNCHANGED <<build, input, table, pq, root, rounds, found, pqOp>>
    /\ UNCHANGED bitsVars

NextMerge ==
    \/ MergeFromTable
    \/ MergeFromRecords

(***************************************************************************)
(*                           the specifications                            *)
(***************************************************************************)

\* the tree side at rest, for the bit stream on its own
InitBitsOnly ==
    /\ InitBits
    /\ devsize \in DeviceSizes
    /\ InitTree
    /\ build = [charSigned |-> TRUE, ndebug |-> FALSE]

InitHuff ==
    /\ InitBits
    /\ devsize = MaxFileLen
    /\ InitTree

InitPQ ==
    /\ InitBits
    /\ devsize = MaxFileLen
    /\ InitTree
    /\ build.ndebug = FALSE

SpecBits == InitBitsOnly /\ [][NextBits]_vars

SpecHuff == InitHuff /\ [][NextHuff]_vars

SpecPQ == InitPQ /\ [][NextPQ]_vars

SpecDeser == InitDeser /\ [][NextDeser]_vars

SpecMerge == InitMerge /\ [][NextMerge]_vars

(***************************************************************************)
(*                    what the claims speak about                          *)
(***************************************************************************)

\* every node below t with its path from t: left is "1", right is "0"
RECURSIVE PathsFrom(_, _, _)
PathsFrom(ns, t, prefix) ==
    IF t = NULL
    THEN {}
    ELSE {[node |-> t, code |-> prefix]}
         \cup PathsFrom(ns, ns[t].left, Append(prefix, "1"))
         \cup PathsFrom(ns, ns[t].right, Append(prefix, "0"))

Paths(ns, tree) == PathsFrom(ns, tree, <<>>)

HasNoChild(ns, n) == ns[n].left = NULL /\ ns[n].right = NULL

\* the (codeword, symbol, count) triples of the childless nodes of a tree
LeafCodes(ns, tree) ==
    {[code |-> p.code, freq |-> ns[p.node].freq] :
        p \in {x \in Paths(ns, tree) : HasNoChild(ns, x.node)}}

\* the symbols of the input
Symbols == {s \in 0..(NUMBER_OF_CHARS - 1) : \E i \in 1..Len(input) : input[i] = s}

Occurrences(s) == Cardinality({i \in 1..Len(input) : input[i] = s})

\* the node create_tree_nodes made for symbol s: the nodes are made in symbol
\* order, before any other
SymNode(s) == 1 + Cardinality({j \in Symbols : j < s})

\* the codewords of symbol s in the tree built
CodesOf(s) == {p.code : p \in {x \in Paths(nodes, root) : x.node = SymNode(s)}}

IsPrefix(a, b) == Len(a) <= Len(b) /\ \A i \in 1..Len(a) : a[i] = b[i]

RECURSIVE SumOver(_, _)
SumOver(S, f) ==
    IF S = {} THEN 0
    ELSE LET x == CHOOSE y \in S : TRUE IN f[x] + SumOver(S \ {x}, f)

\* sum over the symbols of count times codeword length
WeightedPathLength ==
    SumOver(Symbols,
            [s \in Symbols |->
                Occurrences(s) * Len(CHOOSE c \in CodesOf(s) : TRUE)])

\* the least weighted path length of a binary code tree over the symbols S,
\* by trying every split of S into a left and a right subtree
RECURSIVE LeastCost(_)
LeastCost(S) ==
    IF Cardinality(S) <= 1
    THEN 0
    ELSE LET w == SumOver(S, [s \in S |-> Occurrences(s)])
             first == CHOOSE x \in S : TRUE
             splits == {A \in SUBSET S : first \in A /\ A # S}
             costs == {LeastCost(A) + LeastCost(S \ A) : A \in splits}
         IN  w + (CHOOSE c \in costs : \A d \in costs : c <= d)

\* the sum of the counts of the childless nodes below t
RECURSIVE LeafCountSum(_, _)
LeafCountSum(ns, t) ==
    IF t = NULL THEN 0
    ELSE IF HasNoChild(ns, t) THEN ns[t].freq.v
    ELSE LeafCountSum(ns, ns[t].left) + LeafCountSum(ns, ns[t].right)

\* the nodes a queue holds
Held(q) == {q.queue[i] : i \in 0..(q.count - 1)}

(***************************************************************************)
(*                               the claims                                *)
(***************************************************************************)

\* the bit at place i of the packed region: the written bit, or padding
PackedBit(i) == IF i <= Len(written) THEN written[i] ELSE 0

\* byte j of the packed region, its first bit the high-order one
PackedByte(j) ==
    SumOver(1..8, [i \in 1..8 |-> PackedBit(8 * (j - 1) + i) * Pow2(8 - i)])

\* the stream was written without a failure and read with bits_io_read_bit
\* alone, up to end-of-data
ReadToEnd ==
    /\ ~ferr
    /\ lastOp.op = "read_bit"
    /\ lastOp.ret = EOF
    /\ offs = <<>>
    /\ roffs = <<>>

\* C1: bits written with bits_io_write_bit, the stream closed and reopened
\* for read, and read with bits_io_read_bit up to end-of-data: the bits read
\* are the bits written, as many and in the same order.
C1_RoundTrip == ReadToEnd => got = written

\* the tree was built, serialized and deserialized again
RoundTripped == pc = "deserialized"

\* C2: tree_serialize then tree_deserialize of a tree huffman_build_tree made
\* from a non-empty input returns a tree, with the same (symbol, count)
\* leaves and the same codeword for each of them.
C2_SerializeRoundTrip ==
    RoundTripped =>
        /\ droot # NULL
        /\ LeafCodes(nodes, droot) = LeafCodes(nodes, root)

\* C3: huffman_find on the codeword of a symbol of the input returns that
\* byte value, a value in 0..255.
C3_FindReturnsSymbol ==
    pc = "found" =>
        \A s \in Symbols :
            found.enc \in CodesOf(s) => found.kind = "ret" /\ found.val = s

\* the tree huffman_build_tree returned
Built == pc = "built" /\ root # NULL

\* C4: in the tree built, every symbol of the input sits at one node of its
\* own, a node with no children, and no symbol's codeword is a prefix of
\* another symbol's.
C4_PrefixFree ==
    Built =>
        /\ \A s \in Symbols :
              /\ nodes[SymNode(s)].freq = Frequency(Occurrences(s), ToChar(s))
              /\ HasNoChild(nodes, SymNode(s))
              /\ Cardinality(CodesOf(s)) = 1
        /\ \A s1, s2 \in Symbols :
              s1 # s2 =>
                  /\ SymNode(s1) # SymNode(s2)
                  /\ \A c1 \in CodesOf(s1), c2 \in CodesOf(s2) : ~IsPrefix(c1, c2)

C4_Witness ==
    /\ Built
    /\ Cardinality(Symbols) >= 3
    /\ \E s \in Symbols : \E c \in CodesOf(s) : Len(c) >= 2

\* C5: with two symbols or more in the input, the tree built has the least
\* weighted path length of all binary code trees for those symbols.
C5_Optimal ==
    (Built /\ Cardinality(Symbols) >= 2) => WeightedPathLength = LeastCost(Symbols)

C5_Witness ==
    /\ Built
    /\ Cardinality(Symbols) = 4
    /\ \E s1, s2 \in Symbols : Occurrences(s1) = 1 /\ Occurrences(s2) = 2
    /\ \E s1, s2 \in Symbols :
          Len(CHOOSE c \in CodesOf(s1) : TRUE) # Len(CHOOSE c \in CodesOf(s2) : TRUE)

\* C6: in the tree built, the count of every node with children is the sum
\* of its two children's counts, and the root's count is the sum of the
\* counts of all leaves.
C6_CountsAddUp ==
    Built =>
        /\ \A p \in Paths(nodes, root) :
              ~HasNoChild(nodes, p.node) =>
                  /\ nodes[p.node].left # NULL
                  /\ nodes[p.node].right # NULL
                  /\ nodes[p.node].freq.v =
                        nodes[nodes[p.node].left].freq.v + nodes[nodes[p.node].right].freq.v
        /\ nodes[root].freq.v = LeafCountSum(nodes, root)

C6_Witness ==
    /\ Built
    /\ Cardinality(Symbols) >= 3
    /\ nodes[root].freq.v = Len(input)
    /\ \E p \in Paths(nodes, root) : p.code # <<>> /\ ~HasNoChild(nodes, p.node)

\* the input is one byte value, once or more
SingleSymbol == Cardinality(Symbols) = 1

\* C7: for an input of n >= 1 copies of one byte value s the tree built has
\* three nodes: a root whose left child is a childless sentinel of a count
\* below n and whose right child is the leaf of s, so that the sentinel was
\* dequeued first and the codeword of s has length 1.
C7_SingleSymbol ==
    (pc = "built" /\ SingleSymbol) =>
        /\ root # NULL
        /\ tree_size(nodes, root) = 3
        /\ \A s \in Symbols :
              /\ nodes[root].right = SymNode(s)
              /\ nodes[SymNode(s)].freq = Frequency(Len(input), ToChar(s))
              /\ HasNoChild(nodes, SymNode(s))
              /\ CodesOf(s) = {<<"0">>}
        /\ nodes[root].left # NULL
        /\ HasNoChild(nodes, nodes[root].left)
        /\ nodes[nodes[root].left].freq.v < Len(input)

C7_Witness ==
    /\ pc = "built"
    /\ SingleSymbol
    /\ Len(input) = 3
    /\ tree_size(nodes, root) = 3

\* read_offset has just returned
OffsetRead == lastOp.op = "read_offset"

\* the big-endian value of the bytes of f
RECURSIVE BigEndian(_)
BigEndian(f) ==
    IF f = <<>> THEN 0 ELSE 256 * BigEndian(SubSeq(f, 1, Len(f) - 1)) + f[Len(f)]

\* C8: write_offset(v), close, reopen for read, read_offset: the value
\* returned is v and the file holds v most-significant byte first; and
\* read_offset returns the end-of-data value whenever fewer bytes than an
\* offset has were left in the file.
C8_OffsetRoundTrip ==
    OffsetRead =>
        /\ (~ferr /\ written = <<>> /\ got = <<>> /\ Len(offs) = 1) =>
              /\ roffs[1] = offs[1]
              /\ Len(file) = SizeofOffset
              /\ BigEndian(file) = offs[1]
        /\ lastOp.arg < SizeofOffset => lastOp.ret = OffsetEOF

C8_Witness ==
    /\ OffsetRead
    /\ ~ferr
    /\ written = <<>>
    /\ got = <<>>
    /\ offs = <<300>>
    /\ roffs = <<300, OffsetEOF>>
    /\ lastOp.arg = 0

\* a write stream has just been closed, and no write to the file failed
ClosedWrite == lastOp.op = "close_w" /\ ~ferr

Dequeued == pqOp.op = "dequeue"

\* C10: pqueue_dequeue returns NULL on an empty queue; otherwise it returns
\* a node the queue held that compares no greater than any node held, the
\* queue holds the other nodes and its size is one less.
C10_DequeueMin ==
    Dequeued =>
        IF pqOp.before.count = 0
        THEN pqOp.ret = NULL /\ pq = pqOp.before
        ELSE /\ pqOp.ret \in Held(pqOp.before)
             /\ \A m \in Held(pqOp.before) : comparator(nodes, pqOp.ret, m) <= 0
             /\ Held(pq) = Held(pqOp.before) \ {pqOp.ret}
             /\ pq.count = pqOp.before.count - 1
             /\ Cardinality(Held(pq)) = pq.count

C10_Witness ==
    /\ Dequeued
    /\ pqOp.before.count = MAXSIZE
    /\ \E m \in Held(pqOp.before) : comparator(nodes, pqOp.ret, m) < 0
    /\ \E m \in Held(pqOp.before) : m # pqOp.ret /\ comparator(nodes, pqOp.ret, m) = 0

\* the byte value a node's symbol stands for, whatever the sign of char
SymbolOf(n) == nodes[n].freq.c % 256

\* C11: the node pqueue_dequeue returns has the least count of the nodes
\* held, and among the nodes of that count the least symbol value, symbols
\* taken as byte values 0..255: a leaf of symbol 0 leaves the queue before a
\* leaf of symbol 255 with the same count.
C11_SymbolOrder ==
    (Dequeued /\ pqOp.before.count > 0) =>
        \A m \in Held(pqOp.before) :
            /\ nodes[pqOp.ret].freq.v <= nodes[m].freq.v
            /\ nodes[pqOp.ret].freq.v = nodes[m].freq.v =>
                  SymbolOf(pqOp.ret) <= SymbolOf(m)

\* pqueue_enqueue has just returned
Enqueued == pqOp.op = "enqueue"

\* C12: pqueue_enqueue on a queue that holds MAXSIZE nodes changes nothing:
\* the size, the nodes held and the slot of each are as before; and the size
\* is within 0..MAXSIZE in every state.
C12_EnqueueAtCapacity ==
    /\ pq.count \in 0..MAXSIZE
    /\ (Enqueued /\ pqOp.before.count = MAXSIZE) => pq = pqOp.before

C12_Witness ==
    /\ Enqueued
    /\ pqOp.before.count = MAXSIZE
    /\ pqOp.ret \notin Held(pq)
    /\ pq.count = MAXSIZE

\* tree_deserialize has returned from reading any text
Parsed == pc = "parsed"

\* the text does not start with the delimiter
NoLeadingHash(txt) == txt = <<>> \/ txt[1] # "#"

\* the place of the first delimiter after the leading one, 0 when none
Terminator(txt) ==
    IF \E i \in 2..Len(txt) : txt[i] = "#"
    THEN CHOOSE i \in 2..Len(txt) : txt[i] = "#" /\ \A j \in 2..(i - 1) : txt[j] # "#"
    ELSE 0

\* the text starts with the delimiter and ends before a second one
Unterminated(txt) == ~NoLeadingHash(txt) /\ Terminator(txt) = 0

\* what stands between the leading delimiter and the terminating one
BodyOf(txt) ==
    SubSeq(txt, 2, IF Terminator(txt) = 0 THEN Len(txt) ELSE Terminator(txt) - 1)

\* an integer starts at place p: a digit, or a sign with a digit behind it
IntAt(body, p) ==
    \/ IsDigit(body[p])
    \/ body[p] \in {"-", "+"} /\ p + 1 <= Len(body) /\ IsDigit(body[p + 1])

\* the body from place pos on is made of records of two integers each, with
\* seen integers of the current record read so far (2: the record is whole
\* and its separator has not come yet); white space may stand before an
\* integer, and the separator behind a record may be left out
RECURSIVE RecordsFrom(_, _, _)
RecordsFrom(body, pos, seen) ==
    LET p == SkipSpace(body, pos)
    IN  IF p > Len(body) THEN seen \in {0, 2}
        ELSE IF body[p] = "," THEN seen = 2 /\ RecordsFrom(body, p + 1, 0)
        ELSE IF IntAt(body, p)
             THEN RecordsFrom(body,
                              ScanDigits(body, IF IsDigit(body[p]) THEN p ELSE p + 1, 0).pos,
                              IF seen = 2 THEN 1 ELSE seen + 1)
             ELSE FALSE

\* the text has a record that is not two integers
HasBadRecord(txt) == ~NoLeadingHash(txt) /\ ~RecordsFrom(BodyOf(txt), 1, 0)

Malformed(txt) == NoLeadingHash(txt) \/ Unterminated(txt) \/ HasBadRecord(txt)

\* C13: tree_deserialize returns NULL for a text that does not start with
\* '#', for a text with a record that is not two integers, and for a text
\* that ends before the terminating '#'.
C13_MalformedIsNull == (Parsed /\ Malformed(text)) => droot = NULL

C13_Witness ==
    /\ Parsed
    /\ HasBadRecord(text)
    /\ ~Unterminated(text)
    /\ Len(nodes) >= 2
    /\ droot = NULL

\* huffman_find has been called on the tree built
Searched == pc = "found"

\* the bit strings that lead from the root to a node with no children
LeafPaths == {p.code : p \in {x \in Paths(nodes, root) : HasNoChild(nodes, x.node)}}

\* C14: when the bit string does not end exactly at a leaf (it steps onto a
\* missing child, or it ends at a node that has children) huffman_find
\* returns -1, the error indicator, and no symbol.
C14_FindErrors ==
    (Searched /\ found.enc \notin LeafPaths) =>
        found.kind = "ret" /\ found.val = -1

\* a read stream is open
Reading == bfile.fp = "open" /\ bfile.mode = "r"

\* every byte of the file has been consumed: none is left in the file or in
\* the buffer, and every bit of the bytes fetched has been returned
Exhausted ==
    /\ Reading
    /\ fpos = Len(file)
    /\ bfile.index >= bfile.read
    /\ Len(got) = 8 * bfile.count

\* C15: when every byte of the file has been consumed, bits_io_read_bit
\* returns EOF and leaves the accumulator, the bit count, the byte count and
\* the buffer cursor as they were; the stream stays in that condition, so
\* every later bits_io_read_bit returns EOF too.
C15_EndOfDataStable ==
    [][(Exhausted /\ lastOp'.op \in {"read_bit", "read_offset"}) =>
          /\ Exhausted'
          /\ lastOp'.op = "read_bit" =>
                /\ lastOp'.ret = EOF
                /\ bfile' = bfile
                /\ fpos' = fpos
                /\ got' = got]_vars

C15_Witness ==
    /\ Exhausted
    /\ lastOp.op = "read_bit"
    /\ lastOp.ret = EOF
    /\ bfile.count = BUF_SIZE + 1
    /\ Len(got) = 8 * (BUF_SIZE + 1)

\* a write stream is open and no write to the file has failed
WritingNoFailure == bfile.fp = "open" /\ bfile.mode = "w" /\ ~ferr

\* C16: bits_io_num_bytes is floor(n/8) after n bits_io_write_bit calls on
\* a write stream, all successful, and ceil(n/8), the bytes fetched, after
\* n bits returned by bits_io_read_bit on a read stream.
C16_NumBytes ==
    /\ WritingNoFailure => bits_io_num_bytes(bfile) = Len(written) \div 8
    /\ Reading => bits_io_num_bytes(bfile) = CeilDiv(Len(got), 8)

C16_Witness ==
    /\ WritingNoFailure
    /\ Len(written) = 8 * (BUF_SIZE + 1) + 1
    /\ bfile.nbits = 1
    /\ bits_io_num_bytes(bfile) = BUF_SIZE + 1

\* a write stream has just been closed
ClosedWriteStream == lastOp.op = "close_w"

\* the bytes the bits written make, the pending ones padded to a byte
PackedLength == CeilDiv(Len(written), 8)

\* C17: when bits_io_close on a write stream could not bring the buffered
\* bytes or the padded last byte to the file it returns EOF; it returns 0
\* only when the file holds all the data.
C17_CloseReportsFailure ==
    (ClosedWriteStream /\ offs = <<>> /\ Len(file) < PackedLength) =>
        lastOp.ret = EOF

\* C18: the end-of-data result differs from every result of a successful
\* call: bits_io_read_bit returns 0 or 1, never EOF, when a bit was left to
\* read, and read_offset, when the file had a whole offset left, returns a
\* value other than its end-of-data value, whatever write_offset wrote.
C18_EndOfDataDistinct ==
    /\ (lastOp.op = "read_bit" /\ lastOp.arg > 0) => lastOp.ret \in {0, 1}
    /\ (lastOp.op = "read_offset" /\ lastOp.arg >= SizeofOffset) =>
          lastOp.ret # OffsetEOF

\* the children of slot i that are below the size
ChildrenOf(q, i) == {c \in {LEFT_CHILD(i), RIGHT_CHILD(i)} : c < q.count}

\* C19: after every pqueue_enqueue and pqueue_dequeue, from the empty queue
\* on, no node in a slot below the size compares greater than the node in
\* either of its child slots below the size.
C19_HeapInvariant ==
    \A i \in 0..(pq.count - 1) :
        \A c \in ChildrenOf(pq, i) :
            comparator(nodes, pq.queue[i], pq.queue[c]) <= 0

C19_Witness ==
    /\ Dequeued
    /\ pqOp.before.count = MAXSIZE
    /\ pq.count = MAXSIZE - 1
    /\ pq.queue[0] # pqOp.before.queue[MAXSIZE - 1]
    /\ \E i \in 0..(pq.count - 1) :
          \E c \in ChildrenOf(pq, i) :
              comparator(nodes, pq.queue[i], pq.queue[c]) < 0

\* the leaves of the tree built were enqueued again, left to right, and merged
Remerged == pc = "remerged"

\* C20: merge_nodes gives the same tree, the same symbol and count at the end
\* of every path, whether the leaves were enqueued in symbol order or in the
\* left-to-right order of the tree, nodes of equal keys included.
C20_MergeOrderFree ==
    Remerged =>
        /\ droot # NULL
        /\ LeafCodes(nodes, droot) = LeafCodes(nodes, root)

\* the nodes of the tree built
TreeNodes == {p.node : p \in Paths(nodes, root)}

\* C21: the node dequeued first is linked on the left and the second on the
\* right, so in every node of the tree built that has children the left
\* child does not compare greater than the right one; and for an input of
\* two symbols the tree has 3 nodes, both codewords have length 1 and the
\* symbol of the lower count is the left child of the root.
C21_LeftBeforeRight ==
    Built =>
        /\ \A n \in TreeNodes :
              ~HasNoChild(nodes, n) =>
                  /\ nodes[n].left # NULL
                  /\ nodes[n].right # NULL
                  /\ comparator(nodes, nodes[n].left, nodes[n].right) <= 0
        /\ Cardinality(Symbols) = 2 =>
              /\ tree_size(nodes, root) = 3
              /\ \A s \in Symbols : \A c \in CodesOf(s) : Len(c) = 1
              /\ \A s, t \in Symbols :
                    Occurrences(s) < Occurrences(t) =>
                        /\ nodes[root].left = SymNode(s)
                        /\ nodes[root].right = SymNode(t)

C21_Witness ==
    /\ Built
    /\ input = <<0, 0, 0, 0, 97>>
    /\ nodes[root].left = SymNode(97)
    /\ nodes[root].right = SymNode(0)
    /\ nodes[root].freq.v = 5

\* huffman_build_tree has returned, in the specification of the two orders
Merged == pc = "merged"

\* the childless nodes of the tree built, one entry for each path to one
LeafVisits == {p \in Paths(nodes, root) : HasNoChild(nodes, p.node)}

\* C22: with n >= 2 leaves in the queue merge_nodes makes n-1 rounds,
\* leaves the queue empty and returns a root that is not NULL, of a tree of
\* 2n-1 nodes whose childless nodes are the n leaves enqueued, each at the
\* end of one path.
C22_MergeSteps ==
    (Merged /\ Cardinality(Symbols) >= 2) =>
        LET n == Cardinality(Symbols)
        IN  /\ rounds = n - 1
            /\ pq = pqueue_new
            /\ root # NULL
            /\ tree_size(nodes, root) = 2 * n - 1
            /\ Len(nodes) = 2 * n - 1
            /\ {p.node : p \in LeafVisits} = {SymNode(s) : s \in Symbols}
            /\ Cardinality(LeafVisits) = n

C22_Witness ==
    /\ Merged
    /\ Symbols = MergeAlphabet
    /\ rounds = Cardinality(MergeAlphabet) - 1
    /\ tree_size(nodes, root) = 2 * Cardinality(MergeAlphabet) - 1

\* compute_freq has just gone over the input
Counted == pc = "freq"

\* C23: after compute_freq the table entry of every byte value s in 0..255
\* holds the number of times s occurs in the input, 0 when it does not, and
\* the counts add up to the length of the input.
C23_ComputeFreq ==
    Counted =>
        /\ DOMAIN table = 0..(NUMBER_OF_CHARS - 1)
        /\ \A s \in 0..(NUMBER_OF_CHARS - 1) : table[s].v = Occurrences(s)
        /\ SumOver(Symbols, [s \in Symbols |-> table[s].v]) = Len(input)
        /\ \A s \in (0..(NUMBER_OF_CHARS - 1)) \ Symbols : table[s].v = 0

C23_Witness ==
    /\ pc = "freq"
    /\ input = <<0, 128, 128, 255, 255, 255>>
    /\ table[0].v = 1
    /\ table[128].v = 2
    /\ table[255].v = 3
    /\ table[97].v = 0

\* create_tree_nodes has just filled the queue
LeavesMade == pc = "nodes"

\* C24: create_tree_nodes enqueues one node for each symbol of nonzero
\* count and none for the others; each of these nodes is tagged LEAF, holds
\* the symbol and its count, and has no children.
C24_LeafPerSymbol ==
    LeavesMade =>
        /\ Len(nodes) = Cardinality(Symbols)
        /\ pq.count = Cardinality(Symbols)
        /\ Held(pq) = {SymNode(s) : s \in Symbols}
        /\ \A s \in Symbols :
              /\ nodes[SymNode(s)].freq = Frequency(Occurrences(s), ToChar(s))
              /\ HasNoChild(nodes, SymNode(s))
              /\ nodes[SymNode(s)].type = "LEAF"

\* tree_serialize has written the tree built
Serialized == pc = "serialized"

\* path a turns left where path b turns right, after a common start
Precedes(a, b) ==
    \E k \in 1..Len(a) :
        /\ k <= Len(b)
        /\ a[k] = "1"
        /\ b[k] = "0"
        /\ \A j \in 1..(k - 1) : a[j] = b[j]

\* the childless node of the tree built that has i - 1 of them on its left
LeafAt(i) ==
    CHOOSE p \in LeafVisits :
        Cardinality({q \in LeafVisits : Precedes(q.code, p.code)}) = i - 1

\* '#', the record of every childless node of the tree built, from left to
\* right, and '#'
LeafText ==
    <<"#">>
        \o Flatten([i \in 1..Cardinality(LeafVisits) |->
                       RecordText(nodes[LeafAt(i).node].freq.v,
                                  nodes[LeafAt(i).node].freq.c)])
        \o <<"#">>

\* C25: tree_serialize writes '#', one record "<count> <symbol>," for every
\* leaf of the tree and none for a node with children, the leaves taken from
\* left to right, then '#': as many records as the tree has leaves.
C25_SerializeFormat == Serialized => text = LeafText

\* C26: the buffer is unobservable: as long as no write to the file has
\* failed, the file a write stream leaves at close is the file the stream
\* without a buffer leaves after the same calls, and every read_bit and
\* read_offset returns what the stream without a buffer returns.
C26_BufferUnobservable ==
    ~ferr =>
        /\ (lastOp.op = "close_w" => file = unbuf.file)
        /\ (lastOp.op \in {"read_bit", "read_offset"} => lastOp.ret = unbuf.ret)

\* the part of C26 that is about the values returned in read mode
C26_ReadSide ==
    (~ferr /\ lastOp.op \in {"read_bit", "read_offset"}) => lastOp.ret = unbuf.ret

\* the part of C26 that is about streams given bits only, or offsets only
C26_UnmixedWrites ==
    (~ferr /\ lastOp.op = "close_w" /\ (written = <<>> \/ offs = <<>>))
        => file = unbuf.file

\* #define NO_BITS_WRITTEN ((unsigned char)(0xFE))
NO_BITS_WRITTEN == 254

\* C27: no byte that write_bit or close has put into the packed region is
\* 0b11111110; in a stream given no offset the whole file is the packed
\* region.
C27_NoBoundaryByte ==
    offs = <<>> => \A i \in 1..Len(file) : file[i] # NO_BITS_WRITTEN

\* C28: in every state of an open stream, the states after a failed flush
\* or refill included, the accumulator's bit count is within 0..8 and the
\* cursor is at most BUF_SIZE; the slot the last stored or fetched byte went
\* through is inside the buffer and, in read mode, below the number of bytes
\* loaded.
C28_FieldsInRange ==
    bfile.fp = "open" =>
        /\ bfile.nbits \in 0..8
        /\ bfile.index \in 0..BUF_SIZE
        /\ (bfile.mode = "r" /\ lastOp.op = "read_bit" /\ lastOp.ret # EOF)
               => (bfile.index >= 1 /\ bfile.index <= bfile.read
                   /\ bfile.read <= BUF_SIZE)

\* the part of C28 that is about the cursor and the buffer accesses
C28_CursorInRange ==
    bfile.fp = "open" =>
        /\ bfile.index \in 0..BUF_SIZE
        /\ (bfile.mode = "r" /\ lastOp.op = "read_bit" /\ lastOp.ret # EOF)
               => (bfile.index >= 1 /\ bfile.index <= bfile.read
                   /\ bfile.read <= BUF_SIZE)

\* the part of C28 that is about streams no write of which has failed
C28_InRangeWithoutFailure ==
    (bfile.fp = "open" /\ ~ferr) => bfile.nbits \in 0..8

\* the slots of the array that reference node n
SlotsOf(q, n) == {i \in 0..(MAXSIZE - 1) : q.queue[i] = n}

\* the nodes any slot of the array references
Referenced(q) == {q.queue[i] : i \in 0..(MAXSIZE - 1)} \ {NULL}

\* C29: the nodes the queue references are the accepted and not yet
\* dequeued ones: every slot below the size references a node, no node is
\* in two slots, every slot at or above the size is null; an accepted
\* enqueue adds its node to the nodes referenced, a refused one adds
\* nothing, and a dequeue removes the node it returns, which no slot
\* references afterwards.
C29_SlotsOwnNodes ==
    /\ \A i \in 0..(MAXSIZE - 1) : (i < pq.count) <=> (pq.queue[i] # NULL)
    /\ \A n \in Referenced(pq) : Cardinality(SlotsOf(pq, n)) = 1
    /\ (Enqueued /\ pqOp.before.count < MAXSIZE) =>
           Referenced(pq) = Referenced(pqOp.before) \cup {pqOp.ret}
    /\ (Enqueued /\ pqOp.before.count >= MAXSIZE) =>
           Referenced(pq) = Referenced(pqOp.before)
    /\ (Dequeued /\ pqOp.ret # NULL) =>
           /\ SlotsOf(pq, pqOp.ret) = {}
           /\ Referenced(pq) = Referenced(pqOp.before) \ {pqOp.ret}

\* a node is dequeued from a full queue and the slot it vacates, which held
\* another node, is null; a node dequeued earlier is referenced nowhere
C29_Witness ==
    /\ Dequeued
    /\ pqOp.before.count = MAXSIZE
    /\ pqOp.before.queue[MAXSIZE - 1] # pqOp.ret
    /\ pq.queue[MAXSIZE - 1] = NULL
    /\ pqOp.ret \notin Referenced(pq)
    /\ Cardinality(Referenced(pq)) = MAXSIZE - 1

\* the nodes of the tree tree_deserialize returned
ReturnedTree ==
    IF droot = NULL THEN {} ELSE {p.node : p \in Paths(nodes, droot)}

\* the number of times pqueue_free has passed node n to free
TimesFreed(n) == Cardinality({i \in 1..Len(freed) : freed[i] = n})

\* C30: when tree_deserialize returns, every node it allocated is either in
\* the tree returned and not freed, or not in it and freed exactly once; so
\* after a failure every leaf read has been freed.
C30_NoLeakNoDoubleFree ==
    Parsed =>
        \A n \in 1..Len(nodes) :
            IF n \in ReturnedTree THEN TimesFreed(n) = 0 ELSE TimesFreed(n) = 1

\* the part of C30 that is about texts of no more records than the queue
\* has room for
C30_WithinCapacity ==
    (Parsed /\ Cardinality({n \in 1..Len(nodes) : nodes[n].type = "LEAF"}) <= MAXSIZE) =>
        \A n \in 1..Len(nodes) :
            IF n \in ReturnedTree THEN TimesFreed(n) = 0 ELSE TimesFreed(n) = 1

\* huffman_build_tree has returned, with a tree or without
BuildReturned == pc = "built"

\* C31: for an input of no byte the queue given to merge_nodes is empty:
\* merge_nodes allocates no node, adds no sentinel, makes no round, leaves
\* the queue empty and returns NULL, which huffman_build_tree returns.
C31_EmptyInput ==
    (BuildReturned /\ input = <<>>) =>
        /\ root = NULL
        /\ nodes = <<>>
        /\ rounds = 0
        /\ pq = pqueue_new

\* the empty file has gone through huffman_build_tree: every count of the
\* table is 0 and no tree is returned
C31_Witness ==
    /\ BuildReturned
    /\ input = <<>>
    /\ \A i \in 0..(NUMBER_OF_CHARS - 1) : table[i].v = 0
    /\ root = NULL

====
